---- MODULE Spec2Model ----
(***************************************************************************)
(* Model of the selene command line driver (selene/src/main.rs): the main  *)
(* thread resolves the configuration, the standard library and the         *)
(* checker, walks the targets submitting one read_file job per file to a   *)
(* fixed-size thread pool, joins the pool, loads the three counters,       *)
(* prints the totals and derives the exit status.  The worker threads run  *)
(* read_file, whose accesses to shared state (the three atomics, the       *)
(* standard output lock, the standard output stream) are separate steps.   *)
(*                                                                         *)
(* Writes to the terminal are taken to succeed (the unwrap/expect on an    *)
(* io::Error never fires), and num_threads is at least 1.                  *)
(***************************************************************************)
EXTENDS Integers, Sequences, FiniteSets, TLC

\* ------------------------------------------------------------------ bounds
MaxTargets == 2
MaxWorkers == 2
BlockParts == 2

\* --------------------------------------------------- the file system input
\* Targets the user may pass on the command line.
TargetNames == {"missing", "a.lua", "w.lua", "bad.lua", "locked.lua", "src", "empty",
                "d[", "fifo"}

\* fs::metadata(filename): Err, or a file, a directory, or neither.
Metadata(name) ==
    CASE name = "missing" -> "err"
      [] name \in {"a.lua", "w.lua", "bad.lua", "locked.lua"} -> "file"
      [] name \in {"src", "empty", "d["} -> "dir"
      [] OTHER -> "other"

\* glob::glob("<dir>/<pattern>"): a PatternError or the iterator.
GlobPatternOk(name) == name # "d["

\* The entries the glob iterator yields: Ok(path) or Err(GlobError).
GlobEntries(name) ==
    CASE name = "src" -> << [ok |-> TRUE, path |-> "src/clean.lua"],
                            [ok |-> FALSE, path |-> "src/private"],
                            [ok |-> TRUE, path |-> "src/bad.lua"] >>
      [] OTHER -> << >>

\* fs::read_to_string(filename) succeeds.
ReadOk(path) == path # "locked.lua"

\* full_moon::parse(&contents) succeeds.
ParseOk(path) == path \notin {"bad.lua", "src/bad.lua"}

\* checker.test_on(&ast): the diagnostics in the order the checker returns them.
TestOn(path) ==
    CASE path = "a.lua" -> << [pos |-> 2, severity |-> "Warning"],
                              [pos |-> 1, severity |-> "Error"] >>
      [] path = "w.lua" -> << [pos |-> 1, severity |-> "Warning"],
                              [pos |-> 1, severity |-> "Warning"] >>
      [] OTHER -> << >>

\* ------------------------------------------------------------ pure helpers
\* Insert d after every element whose key is <= d.pos (keeps ties in order).
RECURSIVE InsertByStart(_, _)
InsertByStart(d, s) ==
    IF s = << >> THEN << d >>
    ELSE IF Head(s).pos <= d.pos THEN << Head(s) >> \o InsertByStart(d, Tail(s))
    ELSE << d >> \o s

RECURSIVE SortFrom(_, _)
SortFrom(acc, rest) ==
    IF rest = << >> THEN acc
    ELSE SortFrom(InsertByStart(Head(rest), acc), Tail(rest))

SortByStartUnsorted(diags) == diags

\* diagnostics.sort_by_key(|d| d.diagnostic.start_position()): a stable sort.
SortByStart(diags) == SortFrom(<< >>, diags)

\* The counting loop of read_file.
RECURSIVE CountSeverity(_, _)
CountSeverity(diags, sev) ==
    IF diags = << >> THEN 0
    ELSE (IF Head(diags).severity = sev THEN 1 ELSE 0) + CountSeverity(Tail(diags), sev)

FetchAddStore(counter, n) == n

\* AtomicUsize::fetch_add: the new value of the counter.
FetchAdd(counter, n) == counter + n

ExitCodeErrorsOnly(parse_errors, lint_errors, lint_warnings) ==
    IF parse_errors + lint_errors > 0 THEN 1 ELSE 0

\* The exit status main ends with after log_total.
ExitCode(parse_errors, lint_errors, lint_warnings) ==
    IF parse_errors + lint_errors + lint_warnings > 0 THEN 1 ELSE 0

\* Exit status of a process whose main returns.
ReturnFromMain == 0
\* Exit status of a process whose main thread panics.
PanicExit == 101
\* exit_status while the process runs.
Running == -1

\* ------------------------------------------------------------------- state
VARIABLES
    pc,                \* where the main thread is
    num_threads,       \* matches.num_threads
    files,             \* matches.files
    config_lookup,     \* what main found where it looked for the configuration
    config,            \* the CheckerConfig local of main
    standard_library,  \* the StandardLibrary local of main
    checker,           \* the Arc<Checker>
    ti,                \* index of the target the for loop is at
    glob,              \* entries the glob iterator has yet to yield
    tasks,             \* every job handed to pool.execute, in order
    queue,             \* jobs waiting in the pool
    worker,            \* worker thread -> job it runs (0: idle)
    lock,              \* job holding the standard output lock (0: free)
    LINT_ERRORS,
    LINT_WARNINGS,
    PARSE_ERRORS,
    out,               \* what read_file wrote to standard output
    stderr,            \* what error() reported
    loaded,            \* the counters main loaded after join: parse errors, errors, warnings
    loads,             \* number of loads of the counters
    results,           \* the Results: block log_total printed: errors, warnings, parse errors
    exit_status

vars == << pc, num_threads, files, config_lookup, config, standard_library, checker, ti, glob,
           tasks, queue, worker, lock, LINT_ERRORS, LINT_WARNINGS, PARSE_ERRORS,
           out, stderr, loaded, loads, results, exit_status >>

mainVars == << config_lookup, config, standard_library, checker, ti, glob >>
poolVars == << tasks, queue, worker >>
counterVars == << LINT_ERRORS, LINT_WARNINGS, PARSE_ERRORS >>
summaryVars == << loaded, loads, results >>

RECURSIVE SeqsUpTo(_, _)
SeqsUpTo(S, n) ==
    IF n = 0 THEN { << >> }
    ELSE LET shorter == SeqsUpTo(S, n - 1)
         IN shorter \cup { Append(s, x) : s \in shorter, x \in S }

\* A local of main that holds nothing yet, and one moved into the checker.
NoConfig == [src |-> "none", std |-> "none"]
MovedConfig == [src |-> "moved", std |-> "moved"]
NoLookup == [explicit |-> FALSE, file |-> "unread"]
NoStd == [src |-> "none", name |-> "none", inflated |-> FALSE]
MovedStd == [src |-> "moved", name |-> "moved", inflated |-> FALSE]

Init ==
    /\ pc = "config"
    /\ num_threads \in 1..MaxWorkers
    /\ files \in SeqsUpTo(TargetNames, MaxTargets)
    /\ config_lookup = NoLookup
    /\ config = NoConfig
    /\ standard_library = NoStd
    /\ checker = "none"
    /\ ti = 1
    /\ glob = << >>
    /\ tasks = << >>
    /\ queue = << >>
    /\ worker = << >>
    /\ lock = 0
    /\ LINT_ERRORS = 0
    /\ LINT_WARNINGS = 0
    /\ PARSE_ERRORS = 0
    /\ out = << >>
    /\ stderr = {}
    /\ loaded = << >>
    /\ loads = 0
    /\ results = << >>
    /\ exit_status = Running

\* ------------------------------------------------------------- main thread
Report(kind, a, b) == stderr' = stderr \cup { << kind, a, b >> }

FatalKinds == {"config_read", "config_format", "std_format", "std_unknown",
               "checker", "glob_pattern"}

FatalBreak(kind) ==
    /\ Report(kind, 0, 0)
    /\ pc' = "join"
    /\ exit_status' = exit_status

FatalNoReturn(kind) ==
    /\ Report(kind, 0, 0)
    /\ pc' = "pool"
    /\ exit_status' = exit_status

\* error!(...); return;  in main: the process ends, main having returned.
Fatal(kind) ==
    /\ Report(kind, 0, 0)
    /\ pc' = "exited"
    /\ exit_status' = ReturnFromMain

\* The selectors config.std may hold, by what the working directory and the
\* built-in presets hold for them.
StdSelectors == {"lua51", "lua52", "lua53", "custom", "broken", "doesnotexist"}
StdFile(sel) ==
    CASE sel \in {"lua52", "custom"} -> "ok"
      [] sel \in {"lua53", "broken"} -> "malformed"
      [] OTHER -> "absent"
StdPreset(sel) == sel \in {"lua51", "lua52", "lua53"}
DefaultStd == "lua51"

ResolveConfigLenient(explicit, read, parse) ==
    IF explicit
    THEN IF ~read THEN "config_read"
         ELSE IF ~parse THEN "config_format"
         ELSE "explicit"
    ELSE IF read /\ parse THEN "selene.toml" ELSE "default"

\* The arms of  match matches.config { ... }: the fatal error, or where the
\* configuration comes from.  read, parse: fs::read_to_string and
\* toml::from_str succeed on the file looked at.
ResolveConfig(explicit, read, parse) ==
    IF explicit
    THEN IF ~read THEN "config_read"
         ELSE IF ~parse THEN "config_format"
         ELSE "explicit"
    ELSE IF read
         THEN IF ~parse THEN "config_format" ELSE "selene.toml"
         ELSE "default"

\* let config = match matches.config { ... };
LoadConfig ==
    /\ pc = "config"
    /\ \E explicit \in BOOLEAN, read \in BOOLEAN, parse \in BOOLEAN, std \in StdSelectors :
        LET outcome == ResolveConfig(explicit, read, parse) IN
        /\ config_lookup' = [explicit |-> explicit,
                             file |-> IF ~read THEN "absent"
                                      ELSE IF ~parse THEN "malformed" ELSE "ok"]
        /\ IF outcome \in FatalKinds
           THEN Fatal(outcome) /\ config' = config
           ELSE /\ config' = [src |-> outcome,
                              std |-> IF outcome = "default" THEN DefaultStd ELSE std]
                /\ pc' = "std"
                /\ UNCHANGED << stderr, exit_status >>
    /\ UNCHANGED << num_threads, files, standard_library, checker, ti, glob,
                    poolVars, lock, counterVars, out, summaryVars >>

ResolveStdPresetFirst(sel) ==
    IF StdPreset(sel) THEN "preset"
    ELSE CASE StdFile(sel) = "ok" -> "file"
           [] StdFile(sel) = "malformed" -> "std_format"
           [] OTHER -> "std_unknown"

\* The arms of  match fs::read_to_string(format!("{}.toml", &config.std)) { ... }:
\* the fatal error, or where the standard library comes from.
ResolveStd(sel) ==
    CASE StdFile(sel) = "ok" -> "file"
      [] StdFile(sel) = "malformed" -> "std_format"
      [] OTHER -> IF StdPreset(sel) THEN "preset" ELSE "std_unknown"

\* let standard_library = match fs::read_to_string(format!("{}.toml", &config.std)) { ... };
\* standard_library.inflate() is called in the file arm only.
LoadStandardLibrary ==
    /\ pc = "std"
    /\ LET outcome == ResolveStd(config.std) IN
        IF outcome \in FatalKinds
        THEN Fatal(outcome) /\ standard_library' = standard_library
        ELSE /\ standard_library' = [src |-> outcome, name |-> config.std,
                                     inflated |-> (outcome = "file")]
             /\ pc' = "checker"
             /\ UNCHANGED << stderr, exit_status >>
    /\ UNCHANGED << num_threads, files, config_lookup, config, checker, ti, glob,
                    poolVars, lock, counterVars, out, summaryVars >>

\* let checker = Arc::new(match Checker::new(config, standard_library) { ... });
NewChecker ==
    /\ pc = "checker"
    /\ \E ok \in BOOLEAN :
        IF ok
        THEN /\ checker' = "built"
             /\ config_lookup' = NoLookup
             /\ config' = MovedConfig
             /\ standard_library' = MovedStd
             /\ pc' = "pool"
             /\ UNCHANGED << stderr, exit_status >>
        ELSE /\ Fatal("checker")
             /\ UNCHANGED << checker, config_lookup, config, standard_library >>
    /\ UNCHANGED << num_threads, files, ti, glob,
                    poolVars, lock, counterVars, out, summaryVars >>

\* Where the main thread goes once target number i is the next one.
AfterTarget(i) == IF i > Len(files) THEN "join" ELSE "targets"

\* let pool = ThreadPool::new(matches.num_threads);
NewPool ==
    /\ pc = "pool"
    /\ worker' = [w \in 1..num_threads |-> 0]
    /\ pc' = AfterTarget(ti)
    /\ UNCHANGED << num_threads, files, mainVars, tasks, queue, lock, counterVars,
                    out, stderr, summaryVars, exit_status >>

\* A job as pool.execute receives it: the closure calling read_file on path.
NewTask(path) ==
    [ path |-> path, target |-> ti, pc |-> "queued",
      diagnostics |-> << >>, errors |-> 0, warnings |-> 0, i |-> 0, part |-> 0 ]

ExecuteTwice(path) ==
    /\ tasks' = tasks \o << NewTask(path), NewTask(path) >>
    /\ queue' = queue \o << Len(tasks) + 1, Len(tasks) + 2 >>

\* pool.execute(move || read_file(&checker, path))
Execute(path) ==
    /\ tasks' = Append(tasks, NewTask(path))
    /\ queue' = Append(queue, Len(tasks) + 1)

MetadataErrorReturn ==
    /\ Report("metadata", ti, 0)
    /\ pc' = "exited"
    /\ exit_status' = ReturnFromMain
    /\ UNCHANGED << ti, glob, tasks, queue >>

\* Err(error) => { error!("Error getting metadata of {}: {}", ..); }  and on
\* to the next target.
MetadataError ==
    /\ Report("metadata", ti, 0)
    /\ pc' = AfterTarget(ti + 1)
    /\ ti' = ti + 1
    /\ UNCHANGED << glob, tasks, queue, exit_status >>

\* One iteration of  for filename in &matches.files  up to the glob loop.
NextTarget ==
    /\ pc = "targets"
    /\ LET filename == files[ti] IN
        CASE Metadata(filename) = "err" ->
               MetadataError
          [] Metadata(filename) = "file" ->
               /\ Execute(filename)
               /\ pc' = AfterTarget(ti + 1)
               /\ ti' = ti + 1
               /\ UNCHANGED << glob, stderr, exit_status >>
          [] Metadata(filename) = "dir" ->
               IF GlobPatternOk(filename)
               THEN /\ glob' = GlobEntries(filename)
                    /\ pc' = "glob"
                    /\ UNCHANGED << ti, tasks, queue, stderr, exit_status >>
               ELSE /\ Fatal("glob_pattern")
                    /\ UNCHANGED << ti, glob, tasks, queue >>
          [] OTHER ->
               \* unreachable!("Somehow got a symlink from the files?")
               /\ pc' = "panicked"
               /\ exit_status' = PanicExit
               /\ UNCHANGED << ti, glob, tasks, queue, stderr >>
    /\ UNCHANGED << num_threads, files, config_lookup, config, standard_library, checker,
                    worker, lock, counterVars, out, summaryVars >>

GlobEndNoMatchError ==
    /\ pc' = AfterTarget(ti + 1)
    /\ ti' = ti + 1
    /\ IF \A k \in 1..Len(GlobEntries(files[ti])) : ~GlobEntries(files[ti])[k].ok
       THEN Report("glob_entry", ti, 0)
       ELSE UNCHANGED stderr
    /\ UNCHANGED << glob, tasks, queue >>

\* The glob iterator is exhausted: the for loop over the targets goes on.
GlobEnd ==
    /\ pc' = AfterTarget(ti + 1)
    /\ ti' = ti + 1
    /\ UNCHANGED << glob, tasks, queue, stderr >>

\* One iteration of  for entry in glob, or its end.
GlobEntry ==
    /\ pc = "glob"
    /\ IF glob = << >>
       THEN GlobEnd
       ELSE /\ glob' = Tail(glob)
            /\ IF Head(glob).ok
               THEN /\ Execute(Head(glob).path)
                    /\ UNCHANGED stderr
               ELSE /\ Report("glob_entry", ti,
                              Len(GlobEntries(files[ti])) - Len(glob) + 1)
                    /\ UNCHANGED << tasks, queue >>
            /\ UNCHANGED << pc, ti >>
    /\ UNCHANGED << num_threads, files, config_lookup, config, standard_library, checker,
                    worker, lock, counterVars, out, summaryVars, exit_status >>

PoolIdleQueueOnly == queue = << >>

PoolIdleWorkersOnly == \A w \in DOMAIN worker : worker[w] = 0

\* The condition pool.join() waits for: nothing queued, nothing active.
PoolIdle == queue = << >> /\ \A w \in DOMAIN worker : worker[w] = 0

\* pool.join();
Join ==
    /\ pc = "join"
    /\ PoolIdle
    /\ pc' = "load"
    /\ UNCHANGED << num_threads, files, mainVars, poolVars, lock, counterVars,
                    out, stderr, summaryVars, exit_status >>

\* let (parse_errors, lint_errors, lint_warnings) = (PARSE_ERRORS.load(..), ..);
LoadCounters ==
    /\ pc = "load"
    /\ loaded' = << PARSE_ERRORS, LINT_ERRORS, LINT_WARNINGS >>
    /\ loads' = loads + 1
    /\ pc' = "log_total"
    /\ UNCHANGED << num_threads, files, mainVars, poolVars, lock, counterVars,
                    out, stderr, results, exit_status >>

\* log_total(parse_errors, lint_errors, lint_warnings).ok();
LogTotal ==
    /\ pc = "log_total"
    /\ results' = << loaded[2], loaded[3], loaded[1] >>
    /\ pc' = "exit"
    /\ UNCHANGED << num_threads, files, mainVars, poolVars, lock, counterVars,
                    out, stderr, loaded, loads, exit_status >>

\* if parse_errors + lint_errors + lint_warnings > 0 { std::process::exit(1); }
Exit ==
    /\ pc = "exit"
    /\ exit_status' = ExitCode(loaded[1], loaded[2], loaded[3])
    /\ pc' = "done"
    /\ UNCHANGED << num_threads, files, mainVars, poolVars, lock, counterVars,
                    out, stderr, summaryVars >>

\* ---------------------------------------------------------- worker threads
\* The process is over: main returned, called exit or panicked.
Terminated == pc \in {"done", "exited", "panicked"}

Workers == DOMAIN worker

SetTask(t, r) == tasks' = [tasks EXCEPT ![t] = r]

\* read_file returned: its locals are dropped, the worker is idle again.
Finished(t) == [tasks[t] EXCEPT !.pc = "done", !.diagnostics = << >>,
                                !.errors = 0, !.warnings = 0, !.i = 0, !.part = 0]

IdleAlways(w) == TRUE

\* Worker thread w runs no job: it is waiting for one.
Idle(w) == worker[w] = 0

\* An idle worker receives the next job of the queue.
Take(w) ==
    /\ ~Terminated
    /\ Idle(w)
    /\ queue # << >>
    /\ worker' = [worker EXCEPT ![w] = Head(queue)]
    /\ queue' = Tail(queue)
    /\ SetTask(Head(queue), [tasks[Head(queue)] EXCEPT !.pc = "read"])
    /\ UNCHANGED << pc, num_threads, files, mainVars, lock, counterVars,
                    out, stderr, summaryVars, exit_status >>

ReadErrorCounted(t) ==
    /\ Report("file_read", t, 0)
    /\ PARSE_ERRORS' = FetchAdd(PARSE_ERRORS, 1)
    /\ UNCHANGED << LINT_ERRORS, LINT_WARNINGS >>

\* Err(error) => { error!("Couldn't read contents of file {}: {}", ..); return; }
ReadError(t) ==
    /\ Report("file_read", t, 0)
    /\ UNCHANGED counterVars

\* let contents = match fs::read_to_string(filename) { ... };
ReadFile(w) ==
    /\ ~Terminated
    /\ worker[w] # 0
    /\ LET t == worker[w] IN
        /\ tasks[t].pc = "read"
        /\ IF ReadOk(tasks[t].path)
           THEN /\ SetTask(t, [tasks[t] EXCEPT !.pc = "parse"])
                /\ UNCHANGED << worker, stderr, counterVars >>
           ELSE /\ ReadError(t)
                /\ SetTask(t, Finished(t))
                /\ worker' = [worker EXCEPT ![w] = 0]
    /\ UNCHANGED << pc, num_threads, files, mainVars, queue, lock,
                    out, summaryVars, exit_status >>

ParseErrorAsLintError ==
    /\ PARSE_ERRORS' = FetchAdd(PARSE_ERRORS, 1)
    /\ LINT_ERRORS' = FetchAdd(LINT_ERRORS, 1)
    /\ UNCHANGED LINT_WARNINGS

\* Err(error) => { PARSE_ERRORS.fetch_add(1, Ordering::Release); ... }
ParseError ==
    /\ PARSE_ERRORS' = FetchAdd(PARSE_ERRORS, 1)
    /\ UNCHANGED << LINT_ERRORS, LINT_WARNINGS >>

\* let ast = match full_moon::parse(&contents) { ... };  then, on success,
\* checker.test_on(&ast) and the sort of its diagnostics.
Parse(w) ==
    /\ ~Terminated
    /\ worker[w] # 0
    /\ LET t == worker[w] IN
        /\ tasks[t].pc = "parse"
        /\ IF ParseOk(tasks[t].path)
           THEN /\ SetTask(t, [tasks[t] EXCEPT !.pc = "lock",
                                 !.diagnostics = SortByStart(TestOn(tasks[t].path))])
                /\ UNCHANGED << worker, stderr, counterVars >>
           ELSE /\ ParseError
                /\ Report("parse", t, 0)
                /\ SetTask(t, Finished(t))
                /\ worker' = [worker EXCEPT ![w] = 0]
    /\ UNCHANGED << pc, num_threads, files, mainVars, queue, lock,
                    out, summaryVars, exit_status >>

LockFreeAlways == TRUE

LockFreeNever == FALSE

LockFreeUnlessEmitting == IF lock = 0 THEN TRUE ELSE tasks[lock].pc # "emit"

\* The standard output lock can be taken.
LockFree == lock = 0

\* let mut stdout = stdout.lock();  and the loop counting errors and warnings.
Lock(w) ==
    /\ ~Terminated
    /\ worker[w] # 0
    /\ LET t == worker[w] IN
        /\ tasks[t].pc = "lock"
        /\ LockFree
        /\ lock' = t
        /\ SetTask(t, [tasks[t] EXCEPT !.pc = "add_errors",
                         !.errors = CountSeverity(tasks[t].diagnostics, "Error"),
                         !.warnings = CountSeverity(tasks[t].diagnostics, "Warning")])
    /\ UNCHANGED << pc, num_threads, files, mainVars, queue, worker, counterVars,
                    out, stderr, summaryVars, exit_status >>

\* LINT_ERRORS.fetch_add(errors, Ordering::Release);
AddErrors(w) ==
    /\ ~Terminated
    /\ worker[w] # 0
    /\ LET t == worker[w] IN
        /\ tasks[t].pc = "add_errors"
        /\ LINT_ERRORS' = FetchAdd(LINT_ERRORS, tasks[t].errors)
        /\ SetTask(t, [tasks[t] EXCEPT !.pc = "add_warnings"])
    /\ UNCHANGED << pc, num_threads, files, mainVars, queue, worker, lock,
                    LINT_WARNINGS, PARSE_ERRORS, out, stderr, summaryVars, exit_status >>

\* LINT_WARNINGS.fetch_add(warnings, Ordering::Release);
AddWarnings(w) ==
    /\ ~Terminated
    /\ worker[w] # 0
    /\ LET t == worker[w] IN
        /\ tasks[t].pc = "add_warnings"
        /\ LINT_WARNINGS' = FetchAdd(LINT_WARNINGS, tasks[t].warnings)
        /\ SetTask(t, [tasks[t] EXCEPT !.pc = "emit", !.i = 1, !.part = 1])
    /\ UNCHANGED << pc, num_threads, files, mainVars, queue, worker, lock,
                    LINT_ERRORS, PARSE_ERRORS, out, stderr, summaryVars, exit_status >>

\* One write of codespan_reporting::term::emit for the diagnostic the loop is at.
Emit(w) ==
    /\ ~Terminated
    /\ worker[w] # 0
    /\ LET t == worker[w] IN
        /\ tasks[t].pc = "emit"
        /\ tasks[t].i <= Len(tasks[t].diagnostics)
        /\ out' = Append(out, [task |-> t, i |-> tasks[t].i,
                               pos |-> tasks[t].diagnostics[tasks[t].i].pos,
                               severity |-> tasks[t].diagnostics[tasks[t].i].severity,
                               part |-> tasks[t].part])
        /\ IF tasks[t].part < BlockParts
           THEN SetTask(t, [tasks[t] EXCEPT !.part = @ + 1])
           ELSE SetTask(t, [tasks[t] EXCEPT !.i = @ + 1, !.part = 1])
    /\ UNCHANGED << pc, num_threads, files, mainVars, queue, worker, lock,
                    counterVars, stderr, summaryVars, exit_status >>

ReleaseLockLeak(t) == lock

\* The lock once the guard of job t is dropped.
ReleaseLock(t) == IF lock = t THEN 0 ELSE lock

\* The end of read_file after the last diagnostic: the lock guard is dropped.
Return(w) ==
    /\ ~Terminated
    /\ worker[w] # 0
    /\ LET t == worker[w] IN
        /\ tasks[t].pc = "emit"
        /\ tasks[t].i > Len(tasks[t].diagnostics)
        /\ lock' = ReleaseLock(t)
        /\ SetTask(t, Finished(t))
        /\ worker' = [worker EXCEPT ![w] = 0]
    /\ UNCHANGED << pc, num_threads, files, mainVars, queue,
                    counterVars, out, stderr, summaryVars, exit_status >>

\* ----------------------------------------------------------- specification
Next ==
    \/ LoadConfig
    \/ LoadStandardLibrary
    \/ NewChecker
    \/ NewPool
    \/ NextTarget
    \/ GlobEntry
    \/ Join
    \/ LoadCounters
    \/ LogTotal
    \/ Exit
    \/ \E w \in Workers : Take(w)
    \/ \E w \in Workers : ReadFile(w)
    \/ \E w \in Workers : Parse(w)
    \/ \E w \in Workers : Lock(w)
    \/ \E w \in Workers : AddErrors(w)
    \/ \E w \in Workers : AddWarnings(w)
    \/ \E w \in Workers : Emit(w)
    \/ \E w \in Workers : Return(w)

Spec == Init /\ [][Next]_vars

MainStep ==
    \/ LoadConfig \/ LoadStandardLibrary \/ NewChecker \/ NewPool
    \/ NextTarget \/ GlobEntry \/ Join \/ LoadCounters \/ LogTotal \/ Exit

WorkerStep(w) ==
    /\ w \in Workers
    /\ \/ Take(w) \/ ReadFile(w) \/ Parse(w) \/ Lock(w)
       \/ AddErrors(w) \/ AddWarnings(w) \/ Emit(w) \/ Return(w)

\* The main thread and every worker thread of the pool keep being scheduled.
FairSpec ==
    /\ Init /\ [][Next]_vars
    /\ WF_vars(MainStep)
    /\ \A w \in 1..MaxWorkers : WF_vars(WorkerStep(w))

TypeOK ==
    /\ exit_status \in {Running, 0, 1, PanicExit}
    /\ lock \in 0..Len(tasks)

\* ------------------------------------------------------------------ claims
\* A fatal error has been reported.
FatalReported == \E m \in stderr : m[1] \in FatalKinds
GlobFatalReported == \E m \in stderr : m[1] = "glob_pattern"

CountersZero == PARSE_ERRORS = 0 /\ LINT_ERRORS = 0 /\ LINT_WARNINGS = 0

\* What one job adds to << parse errors, lint errors, lint warnings >>.
Contribution(path) ==
    IF ~ReadOk(path) THEN << 0, 0, 0 >>
    ELSE IF ~ParseOk(path) THEN << 1, 0, 0 >>
    ELSE << 0, CountSeverity(TestOn(path), "Error"),
               CountSeverity(TestOn(path), "Warning") >>

RECURSIVE SumContributions(_)
SumContributions(paths) ==
    IF paths = << >> THEN << 0, 0, 0 >>
    ELSE LET c == Contribution(Head(paths))
             r == SumContributions(Tail(paths))
         IN << c[1] + r[1], c[2] + r[2], c[3] + r[3] >>

TaskPaths == [t \in 1..Len(tasks) |-> tasks[t].path]

C2_FatalExitNonZero == (FatalReported /\ Terminated) => exit_status # 0

\* C3 as stated: when a fatal error is reported no job has been submitted.
C3_Original == FatalReported => tasks = << >>

\* C3, amended: a configuration, standard library or checker fatal error is
\* reported before any job is submitted; an invalid glob pattern is reported
\* before any job of its directory or of a later target is submitted (jobs of
\* earlier targets may have been submitted and run); after either, the process
\* is over and nothing more is submitted.
C3_FatalBeforeSubmit ==
    FatalReported =>
        /\ pc = "exited"
        /\ IF GlobFatalReported
           THEN \A t \in 1..Len(tasks) : tasks[t].target < ti
           ELSE tasks = << >>

\* An invalid glob pattern was met after a job of an earlier target ran.
C3_Witness ==
    /\ GlobFatalReported
    /\ \E t \in 1..Len(tasks) : tasks[t].pc = "done"

\* C4: once a fatal error is reported the main thread is not at or past the
\* join, no counter has been loaded and no Results: block is printed.
C4_NoSummaryAfterFatal ==
    FatalReported =>
        /\ pc \notin {"join", "load", "log_total", "exit", "done"}
        /\ loads = 0 /\ loaded = << >>
        /\ results = << >>

\* A fatal error was reported while a submitted job was still unfinished.
C4_Witness ==
    /\ FatalReported
    /\ \E t \in 1..Len(tasks) : tasks[t].pc # "done"

\* C5: the counters are loaded only after the join, once: from then on no job
\* is queued or running, and the values loaded and printed are the sum of the
\* contributions of every submitted job, each counted once.
C5_ReadAfterJoin ==
    /\ loads > 0 =>
        /\ loads = 1
        /\ pc \in {"log_total", "exit", "done"}
        /\ queue = << >>
        /\ \A w \in Workers : worker[w] = 0
        /\ \A t \in 1..Len(tasks) : tasks[t].pc = "done"
        /\ loaded = SumContributions(TaskPaths)
    /\ results # << >> =>
        /\ loads = 1
        /\ results = << loaded[2], loaded[3], loaded[1] >>

\* The summary was printed after several jobs, some of which counted something.
C5_Witness ==
    /\ results # << >>
    /\ Len(tasks) >= 2
    /\ loaded[1] > 0 /\ loaded[2] > 0

RECURSIVE CountParsed(_, _)
\* Diagnostics of severity sev the checker returned over the parsed files.
CountParsed(paths, sev) ==
    IF paths = << >> THEN 0
    ELSE (IF ReadOk(Head(paths)) /\ ParseOk(Head(paths))
          THEN Cardinality({ k \in 1..Len(TestOn(Head(paths))) :
                               TestOn(Head(paths))[k].severity = sev })
          ELSE 0) + CountParsed(Tail(paths), sev)

RECURSIVE TotalDiagnostics(_)
TotalDiagnostics(paths) ==
    IF paths = << >> THEN 0
    ELSE (IF ReadOk(Head(paths)) /\ ParseOk(Head(paths))
          THEN Len(TestOn(Head(paths))) ELSE 0) + TotalDiagnostics(Tail(paths))

\* C6: when the summary is reached, LINT_ERRORS is the number of Error
\* diagnostics and LINT_WARNINGS the number of Warning diagnostics the checker
\* returned over the parsed files, and their sum is the number of diagnostics.
C6_LintCountersExact ==
    pc \in {"load", "log_total", "exit", "done"} =>
        /\ LINT_ERRORS = CountParsed(TaskPaths, "Error")
        /\ LINT_WARNINGS = CountParsed(TaskPaths, "Warning")
        /\ LINT_ERRORS + LINT_WARNINGS = TotalDiagnostics(TaskPaths)

\* The summary was reached after two parsed files with diagnostics each.
C6_Witness ==
    /\ pc = "done"
    /\ Cardinality({ t \in 1..Len(tasks) : TestOn(tasks[t].path) # << >> }) >= 2
    /\ LINT_ERRORS >= 1 /\ LINT_WARNINGS >= 3

\* A step in which job t leaves read_file through the parse error branch.
ParseFailStep(t) ==
    /\ t \in 1..Len(tasks)
    /\ tasks[t].pc = "parse"
    /\ ~ParseOk(tasks[t].path)
    /\ tasks'[t].pc = "done"

ParseFailed == { t \in 1..Len(tasks) :
                   tasks[t].pc = "done" /\ ReadOk(tasks[t].path) /\ ~ParseOk(tasks[t].path) }

\* C7: a job whose parse fails adds exactly 1 to PARSE_ERRORS, leaves
\* LINT_ERRORS and LINT_WARNINGS as they are and writes no diagnostic; no
\* diagnostic of such a job is ever in the output, and PARSE_ERRORS is the
\* number of jobs whose parse has failed.
C7_ParseFailure ==
    /\ [][ \A t \in 1..Len(tasks) : ParseFailStep(t) =>
             /\ PARSE_ERRORS' = PARSE_ERRORS + 1
             /\ UNCHANGED << LINT_ERRORS, LINT_WARNINGS, out >> ]_vars
    /\ [](/\ PARSE_ERRORS = Cardinality(ParseFailed)
          /\ \A k \in 1..Len(out) : ParseOk(tasks[out[k].task].path))

\* Two jobs failed to parse and the run reached its end.
C7_Witness ==
    /\ pc = "done"
    /\ Cardinality(ParseFailed) >= 2
    /\ PARSE_ERRORS = 2

\* The paths the targets enumerate, in order, when no target is fatal.
RECURSIVE OkPaths(_)
OkPaths(entries) ==
    IF entries = << >> THEN << >>
    ELSE (IF Head(entries).ok THEN << Head(entries).path >> ELSE << >>)
         \o OkPaths(Tail(entries))

RECURSIVE Enumerate(_)
Enumerate(targets) ==
    IF targets = << >> THEN << >>
    ELSE (CASE Metadata(Head(targets)) = "file" -> << Head(targets) >>
            [] Metadata(Head(targets)) = "dir" -> OkPaths(GlobEntries(Head(targets)))
            [] OTHER -> << >>)
         \o Enumerate(Tail(targets))

\* The counters a run over the targets ends with: a function of the targets
\* and the files alone.
ExpectedTotals(targets) == SumContributions(Enumerate(targets))

\* C8: the counters printed, and the exit status, are determined by the
\* targets and the file contents alone: they are the same for every number of
\* workers and every schedule.
C8_TotalsIndependentOfWorkers ==
    /\ results # << >> =>
         results = << ExpectedTotals(files)[2], ExpectedTotals(files)[3],
                      ExpectedTotals(files)[1] >>
    /\ pc = "done" =>
         exit_status = (IF ExpectedTotals(files) = << 0, 0, 0 >> THEN 0 ELSE 1)

\* A run with more than one worker, in which two jobs ran at the same time,
\* printed non-zero totals.
C8_Witness ==
    /\ results # << >>
    /\ num_threads > 1
    /\ Len(tasks) >= 2
    /\ results[1] + results[2] + results[3] >= 2

\* C9: in the output, the parts of one diagnostic's block are adjacent and in
\* order: nothing of another job, or of another diagnostic, is between them.
C9_BlocksUninterrupted ==
    \A k \in 1..Len(out) :
        /\ out[k].part > 1 =>
             /\ out[k - 1].task = out[k].task
             /\ out[k - 1].i = out[k].i
             /\ out[k - 1].part = out[k].part - 1
        /\ (out[k].part = 1 /\ k > 1) => out[k - 1].part = BlockParts

\* A job is in the middle of a block while another job is at the lock.
C9_Witness ==
    \E t1, t2 \in 1..Len(tasks) :
        /\ tasks[t1].pc = "emit" /\ tasks[t1].part > 1
        /\ tasks[t2].pc = "lock"
        /\ TestOn(tasks[t2].path) # << >>

\* C10: the diagnostics of one job are in the output in non-decreasing order
\* of start position.
C10_SortedByStart ==
    \A j, k \in 1..Len(out) :
        (j < k /\ out[j].task = out[k].task) => out[j].pos <= out[k].pos

\* A file whose diagnostics the checker returned out of order is fully emitted.
C10_Witness ==
    \E t \in 1..Len(tasks) :
        /\ tasks[t].path = "a.lua" /\ tasks[t].pc = "done"
        /\ \E j, k \in 1..Len(out) :
             /\ j < k /\ out[j].task = t /\ out[k].task = t
             /\ out[j].pos < out[k].pos

\* A step in which main reports a failed metadata lookup or a failed glob match.
EnumerationErrorStep ==
    \E m \in stderr' \ stderr : m[1] \in {"metadata", "glob_entry"}

\* The matches of the directory target main is in that the glob loop has handled.
GlobHandled ==
    SubSeq(GlobEntries(files[ti]), 1, Len(GlobEntries(files[ti])) - Len(glob))

\* The jobs submitted are those of the targets and matches handled so far.
EnumeratedSoFar ==
    pc \in {"targets", "glob", "join", "load", "log_total", "exit", "done"} =>
        /\ TaskPaths = Enumerate(SubSeq(files, 1, ti - 1))
                         \o (IF pc = "glob" THEN OkPaths(GlobHandled) ELSE << >>)
        /\ \A i \in 1..(ti - 1) :
             /\ Metadata(files[i]) = "err" => << "metadata", i, 0 >> \in stderr
             /\ \A k \in 1..Len(GlobEntries(files[i])) :
                  ~GlobEntries(files[i])[k].ok => << "glob_entry", i, k >> \in stderr
        /\ pc \in {"join", "load", "log_total", "exit", "done"} =>
             /\ ti = Len(files) + 1
             /\ TaskPaths = Enumerate(files)

\* C11: a failed metadata lookup and a failed glob match are reported without
\* ending the run: the step submits no job, changes no counter and leaves main
\* in the enumeration or at the join; every other match and every later target
\* is enumerated and submitted, so that at the join, and when the summary is
\* printed, the jobs are those of all the targets.  (That the join and the
\* summary are then reached is C12.)
C11_EnumerationErrorsNonFatal ==
    /\ [][ EnumerationErrorStep =>
             /\ tasks' = tasks /\ queue' = queue
             /\ UNCHANGED << LINT_ERRORS, LINT_WARNINGS, PARSE_ERRORS, out >>
             /\ pc' \in {"targets", "glob", "join"}
             /\ exit_status' = Running ]_vars
    /\ []EnumeratedSoFar

\* The summary is printed after a failed metadata lookup and a failed glob
\* match, with jobs submitted after each.
C11_Witness ==
    /\ results # << >>
    /\ \E m \in stderr : m[1] = "metadata" /\ \E t \in 1..Len(tasks) : tasks[t].target > m[2]
    /\ \E m \in stderr : m[1] = "glob_entry" /\ Len(tasks) >= 2

\* The run was ended before the join: by a fatal error, or by the panic of the
\* main thread on a target that is neither a file nor a directory.
RunAborted == FatalReported \/ pc = "panicked"

AllTasksDone == \A t \in 1..Len(tasks) : tasks[t].pc = "done"

ConfigErrorReported == \E m \in stderr : m[1] \in {"config_read", "config_format"}

StdErrorReported == \E m \in stderr : m[1] \in {"std_format", "std_unknown"}

EmptyDir(name) ==
    Metadata(name) = "dir" /\ GlobPatternOk(name) /\ GlobEntries(name) = << >>

\* C15: the steps main takes on a directory target whose pattern matches no
\* file submit no job, change no counter and report nothing; no job and no
\* reported error is ever of such a target; a run all of whose targets are such
\* directories ends with the summary 0, 0, 0 printed and exit status 0.
C15_EmptyDirectory ==
    /\ [][ (/\ pc \in {"targets", "glob"}
            /\ EmptyDir(files[ti])
            /\ (pc' # pc \/ ti' # ti)) =>
             /\ tasks' = tasks /\ queue' = queue /\ stderr' = stderr
             /\ UNCHANGED << LINT_ERRORS, LINT_WARNINGS, PARSE_ERRORS >>
             /\ pc' \in {"targets", "glob", "join"} ]_vars
    /\ [](/\ \A t \in 1..Len(tasks) : ~EmptyDir(files[tasks[t].target])
          /\ \A m \in stderr :
               m[1] \in {"metadata", "glob_entry"} => ~EmptyDir(files[m[2]])
          /\ (pc = "done" /\ \A i \in 1..Len(files) : EmptyDir(files[i])) =>
               /\ tasks = << >> /\ stderr = {}
               /\ results = << 0, 0, 0 >>
               /\ exit_status = 0)

\* A run over two directories without a match ended with status 0.
C15_Witness ==
    /\ pc = "done"
    /\ Len(files) = 2 /\ \A i \in 1..Len(files) : EmptyDir(files[i])
    /\ results = << 0, 0, 0 >> /\ exit_status = 0

\* Job t is stopped at stdout.lock() because another job holds the lock.
WaitsForLock(t) == tasks[t].pc = "lock" /\ lock # 0 /\ lock # t

\* C16 as stated: no job ever waits for another job to release the standard
\* output lock.
C16_Original == \A t \in 1..Len(tasks) : ~WaitsForLock(t)

\* C16, amended: a worker waits for another job at the standard output lock
\* only: in every other place of read_file its next step can be taken at once;
\* where it waits at the lock, the job holding the lock is being run by another
\* worker and is in its count-and-render section, where it waits for nothing.
C16_BlocksOnlyAtLock ==
    ~Terminated =>
        \A w \in Workers :
            worker[w] # 0 =>
                /\ tasks[worker[w]].pc \in {"read", "parse", "lock", "add_errors",
                                            "add_warnings", "emit"}
                /\ tasks[worker[w]].pc # "lock" =>
                     ENABLED (ReadFile(w) \/ Parse(w) \/ AddErrors(w)
                              \/ AddWarnings(w) \/ Emit(w) \/ Return(w))
                /\ (tasks[worker[w]].pc = "lock" /\ ~ENABLED Lock(w)) =>
                     /\ WaitsForLock(worker[w])
                     /\ tasks[lock].pc \in {"add_errors", "add_warnings", "emit"}
                     /\ \E v \in Workers : v # w /\ worker[v] = lock

\* A job waits at the lock while another job is writing a diagnostic.
C16_Witness ==
    \E t \in 1..Len(tasks) :
        /\ WaitsForLock(t)
        /\ tasks[lock].pc = "emit" /\ tasks[lock].i = 2

\* The main thread is at a file target or at a successful glob match.
AtDiscovery ==
    \/ pc = "targets" /\ Metadata(files[ti]) = "file"
    \/ pc = "glob" /\ glob # << >> /\ Head(glob).ok

DiscoveredPath == IF pc = "targets" THEN files[ti] ELSE Head(glob).path

\* The step is one of the main thread's enumeration.
EnumerationStep == pc \in {"targets", "glob"} /\ (pc' # pc \/ ti' # ti \/ glob' # glob)

\* C17: the step of main that discovers a file (a file target, a successful
\* glob match) submits, in that step, exactly one job for that file to the
\* queue of the pool; no other step submits a job.
C17_SubmitWhenDiscovered ==
    [][ IF EnumerationStep /\ AtDiscovery
        THEN /\ Len(tasks') = Len(tasks) + 1
             /\ SubSeq(tasks', 1, Len(tasks)) = tasks
             /\ tasks'[Len(tasks')].path = DiscoveredPath
             /\ tasks'[Len(tasks')].pc = "queued"
             /\ queue' = Append(queue, Len(tasks'))
        ELSE Len(tasks') = Len(tasks) /\ Len(queue') <= Len(queue) ]_vars

\* A job has finished and another is running while main has yet to look at a
\* later target.
C17_Witness ==
    /\ pc = "targets" /\ ti <= Len(files)
    /\ \E t \in 1..Len(tasks) : tasks[t].pc = "done"
    /\ \E t \in 1..Len(tasks) : tasks[t].pc \notin {"queued", "done"}

\* The jobs a worker is running.
RunningTasks == { t \in 1..Len(tasks) : tasks[t].pc \notin {"queued", "done"} }

Holders(t) == { w \in Workers : worker[w] = t }

Occurrences(t) == { k \in 1..Len(queue) : queue[k] = t }

\* C18: the pool has num_threads >= 1 workers and at most that many jobs run
\* at a time; a job is either waiting (once) in the queue and run by no
\* worker, or run by exactly one worker, or done; a job waits only while it is
\* in the queue, is started only from the queue, stays with its worker until
\* it is done and is never started again.
C18_BoundedPool ==
    /\ [](/\ num_threads >= 1
          /\ Workers \in {{}, 1..num_threads}
          /\ Cardinality(RunningTasks) <= num_threads
          /\ \A t \in 1..Len(tasks) :
               /\ tasks[t].pc = "queued" =>
                    Cardinality(Occurrences(t)) = 1 /\ Holders(t) = {}
               /\ t \in RunningTasks =>
                    Occurrences(t) = {} /\ Cardinality(Holders(t)) = 1
               /\ tasks[t].pc = "done" =>
                    Occurrences(t) = {} /\ Holders(t) = {})
    /\ [][ /\ \A t \in 1..Len(tasks) :
                /\ tasks[t].pc = "done" => tasks'[t].pc = "done"
                /\ tasks[t].pc # "queued" => tasks'[t].pc # "queued"
                /\ (tasks'[t].pc = "read" /\ tasks[t].pc # "read") =>
                     /\ tasks[t].pc = "queued"
                     /\ queue # << >> /\ Head(queue) = t
           /\ \A w \in Workers :
                (worker[w] # 0 /\ worker'[w] # worker[w]) =>
                    worker'[w] = 0 /\ tasks'[worker[w]].pc = "done" ]_vars

\* Every one of two or more workers runs a job while another job waits.
C18_Witness ==
    /\ num_threads >= 2
    /\ \A w \in Workers : worker[w] # 0
    /\ Cardinality(RunningTasks) = num_threads
    /\ queue # << >>

\* The jobs between stdout.lock() and the end of read_file.
InSection == { t \in 1..Len(tasks) : tasks[t].pc \in {"add_errors", "add_warnings", "emit"} }

\* C19: a job in its count-and-render section holds the standard output lock,
\* and the lock is held by such a job only, so at most one job is in the
\* section; the lock is taken when free, by a job arriving at lock(), and given
\* up only when that job's read_file returns; LINT_ERRORS, LINT_WARNINGS and
\* the output change only in steps of the job holding the lock; and the
\* diagnostics of one job are contiguous in the output.
C19_LockHeldAcrossSection ==
    /\ [](/\ Cardinality(InSection) <= 1
          /\ \A t \in InSection : lock = t
          /\ lock # 0 => lock \in InSection
          /\ \A j, k \in 1..Len(out) :
               (j < k /\ out[j].task = out[k].task) =>
                   \A m \in j..k : out[m].task = out[j].task)
    /\ [][ /\ (lock' # lock /\ lock' # 0) =>
                lock = 0 /\ tasks[lock'].pc = "lock" /\ tasks'[lock'].pc = "add_errors"
           /\ (lock' # lock /\ lock # 0) =>
                lock' = 0 /\ tasks[lock].pc = "emit" /\ tasks'[lock].pc = "done"
           /\ (LINT_ERRORS' # LINT_ERRORS \/ LINT_WARNINGS' # LINT_WARNINGS \/ out' # out) =>
                lock # 0 /\ lock' = lock /\ tasks'[lock] # tasks[lock] ]_vars

\* Two jobs with two diagnostics each have written all of them.
C19_Witness ==
    \E t1, t2 \in 1..Len(tasks) :
        /\ t1 # t2
        /\ tasks[t1].pc = "done" /\ tasks[t2].pc = "done"
        /\ \E j, k \in 1..Len(out) :
             /\ out[j].task = t1 /\ out[j].i = 2
             /\ out[k].task = t2 /\ out[k].i = 2

\* A step in which job t leaves read_file through the read error branch.
ReadFailStep(t) ==
    /\ t \in 1..Len(tasks)
    /\ tasks[t].pc = "read"
    /\ ~ReadOk(tasks[t].path)
    /\ tasks'[t].pc = "done"

\* Nothing but unreadable files and failed metadata lookups was reported, and
\* no file that was read has a diagnostic.
OnlyReadAndMetadataFailures ==
    /\ \A m \in stderr : m[1] \in {"file_read", "metadata"}
    /\ \A t \in 1..Len(tasks) : ReadOk(tasks[t].path) => TestOn(tasks[t].path) = << >>

\* C20: the step of a job whose file cannot be read changes none of the three
\* counters and writes nothing to standard output, and nothing in the output
\* is ever of such a job; a run that ends having met only unreadable files
\* and failed metadata lookups has printed 0, 0, 0 and has exit status 0.
C20_ReadFailure ==
    /\ [][ \A t \in 1..Len(tasks) : ReadFailStep(t) =>
             /\ UNCHANGED << LINT_ERRORS, LINT_WARNINGS, PARSE_ERRORS, out >>
             /\ << "file_read", t, 0 >> \in stderr' ]_vars
    /\ [](/\ \A k \in 1..Len(out) : ReadOk(tasks[out[k].task].path)
          /\ (pc = "done" /\ OnlyReadAndMetadataFailures) =>
               /\ results = << 0, 0, 0 >>
               /\ exit_status = 0)

\* A run over an unreadable file and a missing target ended with status 0.
C20_Witness ==
    /\ pc = "done" /\ exit_status = 0 /\ results = << 0, 0, 0 >>
    /\ \E m \in stderr : m[1] = "file_read"
    /\ \E m \in stderr : m[1] = "metadata"
    /\ OnlyReadAndMetadataFailures

====
